---- MODULE Spec2Model ----
(***************************************************************************)
(* Model of the ProductList component (src/components/ProductList.jsx):    *)
(* a category selection held in React state, a filter of the imported      *)
(* products array by that selection, and the grid of ProductCard elements  *)
(* (plus the empty-state paragraph) the component returns.                 *)
(*                                                                         *)
(* JavaScript values that the code inspects for truthiness (product.id,    *)
(* the React key) are modelled as tagged records so that 0, "" and         *)
(* undefined stay distinct values.  Array indices are 0-based as in the    *)
(* source; TLA+ sequences are 1-based, so element i of a sequence has      *)
(* JavaScript index i - 1.                                                 *)
(***************************************************************************)
EXTENDS Integers, Sequences, FiniteSets, TLC

\* ---------------------------------------------------------------- bounds
\* Longest products array drawn for the component.
MaxProducts == 3
\* Number of change events dispatched in one behaviour.
MaxWrites == 6

\* ------------------------------------------------------ JavaScript values
Undefined == [t |-> "undefined", n |-> 0, s |-> ""]
Num(n) == [t |-> "number", n |-> n, s |-> ""]
Str(s) == [t |-> "string", n |-> 0, s |-> s]

\* ToBoolean as applied by the || operator.
Truthy(v) ==
  CASE v.t = "undefined" -> FALSE
    [] v.t = "number" -> v.n # 0
    [] v.t = "string" -> v.s # ""

\* a || b
Or(a, b) == IF Truthy(a) THEN a ELSE b

\* ------------------------------------------------------------- the data
\* src/data/products.js: four records, none of which has an id property.
\* The image URLs are left out: ProductList never reads them.
ShippedProducts ==
  << [name |-> "Laptop", category |-> "Electronics", price |-> 55000],
     [name |-> "Shirt", category |-> "Clothing", price |-> 999],
     [name |-> "Rice Bag", category |-> "Grocery", price |-> 799],
     [name |-> "Cricket Kit", category |-> "Sports", price |-> 15999] >>

\* Property read product.id: undefined when the record has no such property.
Id(product) == IF "id" \in DOMAIN product THEN product.id ELSE Undefined

HasId(product) == "id" \in DOMAIN product

\* Records the component is exercised on: with and without an id, the ids
\* covering the falsy values 0 and "" next to ordinary ones.
IdValues == {Num(0), Num(1), Str(""), Str("a")}
RecordCategories == {"Electronics", "Clothing"}
Records ==
  [category : RecordCategories] \cup [category : RecordCategories, id : IdValues]

Catalogs == UNION {[1..n -> Records] : n \in 0..MaxProducts}

\* --------------------------------------------------------- the component
\* Variant: the state cell starts on a category instead of the sentinel.
InitialCategory_Electronics == "Electronics"

\* useState("All")
InitialCategory == "All"

\* Variant: the select offers an option no shipped record carries.
DropdownOptions_WithHome ==
  <<"All", "Electronics", "Clothing", "Grocery", "Sports", "Home">>

\* The <option value=...> elements of the select, in document order.
DropdownOptions == <<"All", "Electronics", "Clothing", "Grocery", "Sports">>

OptionValues == {DropdownOptions[i] : i \in DOMAIN DropdownOptions}

\* Variant: a setter that keeps the previous value for labels it does not know.
setCategory_Validating(prev, value) ==
  IF value \in {"All"} \cup RecordCategories THEN value ELSE prev

\* setCategory(value): the state takes the value handed over, unexamined.
setCategory(prev, value) == value

\* products.filter((product) => product.category === category):
\* visits the indices in ascending order and appends every element that
\* passes the test to a fresh array.
RECURSIVE FilterFrom(_, _, _, _)
FilterFrom(arr, category, i, acc) ==
  IF i > Len(arr) THEN acc
  ELSE FilterFrom(arr, category, i + 1,
                  IF arr[i].category = category THEN Append(acc, arr[i]) ELSE acc)

\* Variant: the loop stops one element early.
Filter_SkipLast(arr, category) ==
  FilterFrom(IF Len(arr) = 0 THEN arr ELSE SubSeq(arr, 1, Len(arr) - 1),
             category, 1, <<>>)

\* Variant: the loop starts at the second element.
Filter_SkipFirst(arr, category) == FilterFrom(arr, category, 2, <<>>)

\* Variant: passing elements are put at the front (unshift for push).
RECURSIVE FilterFrom_Unshift(_, _, _, _)
FilterFrom_Unshift(arr, category, i, acc) ==
  IF i > Len(arr) THEN acc
  ELSE FilterFrom_Unshift(arr, category, i + 1,
                  IF arr[i].category = category THEN <<arr[i]>> \o acc ELSE acc)

Filter_Unshift(arr, category) == FilterFrom_Unshift(arr, category, 1, <<>>)

Filter(arr, category) == FilterFrom(arr, category, 1, <<>>)

\* Variant: the "All" sentinel is not special-cased.
ComputeFilteredProducts_NoSentinel(arr, category) == Filter(arr, category)

\* const filteredProducts = category === "All" ? products : products.filter(...)
ComputeFilteredProducts(arr, category) ==
  IF category = "All" THEN arr ELSE Filter(arr, category)

\* Variant: the filter removes the failing elements from the array itself.
StoreAfterFilter_InPlace(arr, category) ==
  IF category = "All" THEN arr ELSE Filter(arr, category)

\* The products array after the expression above has been evaluated:
\* neither branch writes to it.
StoreAfterFilter(arr, category) == arr

\* key={product.id || index}
Key(product, index) == Or(Id(product), Num(index))

\* Variant: the cards are numbered from 1.
MapCards_OneBased(fp) ==
  [i \in 1..Len(fp) |->
     [key |-> Key(fp[i], i - 1), product |-> fp[i], index |-> i]]

\* filteredProducts.map((product, index) => <ProductCard .../>)
MapCards(fp) ==
  [i \in 1..Len(fp) |->
     [key |-> Key(fp[i], i - 1), product |-> fp[i], index |-> i - 1]]

\* Variant: the grid holds the cards only (the earlier ProductList).
EmptyNotice_Absent(fp) == FALSE

\* filteredProducts.length === 0 && <p>No products found in this category.</p>
EmptyNotice(fp) == Len(fp) = 0

\* ------------------------------------------------------------------ state
VARIABLES
  products,          \* the imported products array
  category,          \* the useState cell
  selectValue,       \* value of the <select> element (e.target.value)
  pc,                \* "render": a render of ProductList is due; "idle"
  filteredProducts,  \* the constant computed by the latest render
  cards,             \* the ProductCard elements of the latest render
  notice,            \* whether the latest render holds the empty-state <p>
  writes,            \* number of setCategory calls so far
  renders            \* number of completed renders so far

vars == <<products, category, selectValue, pc, filteredProducts, cards,
          notice, writes, renders>>

\* The component has been created and its first render is due.
InitView ==
  /\ category = InitialCategory
  /\ selectValue = InitialCategory
  /\ pc = "render"
  /\ filteredProducts = <<>>
  /\ cards = <<>>
  /\ notice = FALSE
  /\ writes = 0
  /\ renders = 0

Init == products \in Catalogs /\ InitView

InitShipped == products = ShippedProducts /\ InitView

\* Variant: the handler stores the value but no render becomes due.
SelectCategory_NoRender(label) ==
  /\ pc = "idle"
  /\ writes < MaxWrites
  /\ label # selectValue
  /\ selectValue' = label
  /\ category' = setCategory(category, label)
  /\ pc' = "idle"
  /\ writes' = writes + 1
  /\ UNCHANGED <<products, filteredProducts, cards, notice, renders>>

\* onChange={(e) => setCategory(e.target.value)}: the user picks an option,
\* the handler stores it and a render becomes due.  The select raises a
\* change event only for an option other than the one it shows, and only
\* between renders (handlers and renders run to completion on one thread).
SelectCategory(label) ==
  /\ pc = "idle"
  /\ writes < MaxWrites
  /\ label # selectValue
  /\ selectValue' = label
  /\ category' = setCategory(category, label)
  /\ pc' = "render"
  /\ writes' = writes + 1
  /\ UNCHANGED <<products, filteredProducts, cards, notice, renders>>

\* One call of ProductList(): the body of the function, start to return.
Render ==
  /\ pc = "render"
  /\ filteredProducts' = ComputeFilteredProducts(products, category)
  /\ products' = StoreAfterFilter(products, category)
  /\ cards' = MapCards(filteredProducts')
  /\ notice' = EmptyNotice(filteredProducts')
  /\ selectValue' = category
  /\ renders' = renders + 1
  /\ pc' = "idle"
  /\ UNCHANGED <<category, writes>>

Next ==
  \/ \E label \in OptionValues : SelectCategory(label)
  \/ Render

\* The component over any products array.
Spec == Init /\ [][Next]_vars

\* The component bound to src/data/products.js.
SpecShipped == InitShipped /\ [][Next]_vars

\* The same, with the render that a state write makes due always carried
\* out: React flushes the update of a change event before the event ends.
SpecShippedFair == SpecShipped /\ WF_vars(Render)

TypeOK ==
  /\ pc \in {"idle", "render"}
  /\ writes \in 0..MaxWrites
  /\ notice \in BOOLEAN

\* ------------------------------------------------------------ properties
Matching(arr, s) == {i \in DOMAIN arr : arr[i].category = s}

Count(arr, r) == Cardinality({i \in DOMAIN arr : arr[i] = r})

Range(arr) == {arr[i] : i \in DOMAIN arr}

CardProducts == [i \in DOMAIN cards |-> cards[i].product]

\* a is b with some elements left out, the rest in b's order.
RECURSIVE IsSubsequence(_, _)
IsSubsequence(a, b) ==
  IF Len(a) = 0 THEN TRUE
  ELSE IF Len(b) = 0 THEN FALSE
  ELSE IF Head(a) = Head(b) THEN IsSubsequence(Tail(a), Tail(b))
  ELSE IsSubsequence(a, Tail(b))

\* The selection picks out no record of the products array.
MatchesNothing ==
  IF category = "All" THEN Len(products) = 0
  ELSE Matching(products, category) = {}

\* C1: after a render, the filtered sequence holds exactly the records of
\* the products array whose category equals the selection (each as often as
\* the array holds it, so the lengths agree), and for the selection "All" it
\* is the whole array.
C1_FilterExact ==
  pc = "idle" =>
    IF category = "All"
    THEN /\ filteredProducts = products
         /\ Len(filteredProducts) = Len(products)
    ELSE /\ Len(filteredProducts) = Cardinality(Matching(products, category))
         /\ \A i \in DOMAIN filteredProducts :
              filteredProducts[i].category = category
         /\ \A r \in Range(products) \cup Range(filteredProducts) :
              Count(filteredProducts, r) =
                IF r.category = category THEN Count(products, r) ELSE 0

C1_Witness ==
  /\ pc = "idle"
  /\ writes > 0
  /\ category # "All"
  /\ Len(filteredProducts) = 2
  /\ Len(products) = 3

\* C2: after a render, the records of the filtered sequence stand in the
\* order in which the products array holds them.
C2_FilterStable ==
  pc = "idle" => IsSubsequence(filteredProducts, products)

C2_Witness ==
  /\ pc = "idle"
  /\ category # "All"
  /\ Len(filteredProducts) = 2
  /\ filteredProducts[1] # filteredProducts[2]
  /\ Len(products) = 3

\* C3: once a change to "All" has been rendered, whatever was selected
\* before, the filtered sequence and the cards are the whole products array
\* in its order.
C3_AllRestores ==
  (pc = "idle" /\ writes >= 1 /\ category = "All") =>
     /\ filteredProducts = products
     /\ CardProducts = products

C3_Witness ==
  /\ pc = "idle"
  /\ writes >= 2
  /\ category = "All"
  /\ Len(products) >= 2
  /\ filteredProducts = products
  /\ \E i, j \in DOMAIN products : products[i].category # products[j].category

\* C4: after a render with a selection that matches no record, the filtered
\* sequence is empty, there are no cards and the empty-state notice is
\* there; a grid without cards always carries the notice.
C4_EmptyNotice ==
  pc = "idle" =>
    /\ MatchesNothing =>
         (filteredProducts = <<>> /\ cards = <<>> /\ notice)
    /\ cards = <<>> => notice

C4_Witness ==
  /\ pc = "idle"
  /\ category # "All"
  /\ Len(products) > 0
  /\ MatchesNothing
  /\ notice
  /\ cards = <<>>

\* C5: until the first change event the selection is "All", and the first
\* render shows every record of the products array in its order.
C5_InitialAll ==
  writes = 0 =>
    /\ category = "All"
    /\ pc = "idle" => (filteredProducts = products /\ CardProducts = products)

C5_Witness ==
  /\ writes = 0
  /\ renders = 1
  /\ pc = "idle"
  /\ Len(cards) >= 2

\* C6: filtering the filtered sequence again by the same selection returns
\* the filtered sequence.
C6_FilterIdempotent ==
  pc = "idle" =>
    ComputeFilteredProducts(filteredProducts, category) = filteredProducts

C6_Witness ==
  /\ pc = "idle"
  /\ category # "All"
  /\ Len(filteredProducts) >= 2
  /\ Len(filteredProducts) < Len(products)

\* The label is neither "All" nor the category of a record.
Unrecognized(label) == label # "All" /\ Matching(products, label) = {}

\* C7: a change event whose label is neither "All" nor the category of any
\* record still replaces the selection by that label and makes a render due
\* like any other; the render that follows computes an empty filtered
\* sequence.
C7_NoValidation ==
  /\ [][(writes' = writes + 1 /\ Unrecognized(selectValue')) =>
          (category' = selectValue' /\ pc' = "render")]_vars
  /\ []((pc = "idle" /\ Unrecognized(category)) => filteredProducts = <<>>)

C7_Witness ==
  /\ pc = "idle"
  /\ writes >= 1
  /\ Unrecognized(category)
  /\ category = selectValue
  /\ filteredProducts = <<>>
  /\ Len(products) > 0

\* C8: with the shipped products array the selection is always "All" or a
\* category some record carries; it is "All" before the first change event
\* and afterwards a value of one of the select's options.
C8_SelectionClosed ==
  /\ category \in {"All"} \cup {products[i].category : i \in DOMAIN products}
  /\ writes = 0 => category = "All"
  /\ category \in OptionValues

C8_Witness ==
  /\ pc = "idle"
  /\ writes >= 2
  /\ category = "Sports"
  /\ Len(filteredProducts) = 1

\* C9: no step changes the products array: its records, their fields and
\* their order stay what they were at the start.
C9_StoreImmutable == [][products' = products]_vars

C9_Witness ==
  /\ pc = "idle"
  /\ renders >= 3
  /\ category # "All"
  /\ Len(filteredProducts) < Len(products)

\* C10: after a render every card whose record has an id is keyed by that
\* id, whatever its value, and every card whose record has none is keyed by
\* its index in the filtered sequence.
C10_KeyIsIdWhenPresent ==
  pc = "idle" =>
    \A i \in DOMAIN cards :
      cards[i].key =
        IF HasId(cards[i].product) THEN Id(cards[i].product) ELSE Num(i - 1)

\* C11: after a render there are as many cards as the filtered sequence has
\* elements, and the card at JavaScript index i holds element i of the
\* filtered sequence as its product prop and i as its index prop: the
\* position in the filtered sequence, not the one in the products array.
C11_CardPerElement ==
  pc = "idle" =>
    /\ Len(cards) = Len(filteredProducts)
    /\ \A i \in DOMAIN cards :
         /\ cards[i].product = filteredProducts[i]
         /\ cards[i].index = i - 1

\* A rendered card whose record stands further back in the products array
\* than the card stands in the grid.
C11_Witness ==
  /\ pc = "idle"
  /\ category # "All"
  /\ Len(cards) = 2
  /\ Len(products) = 3
  /\ products[1].category # category
  /\ cards[1].product = products[2]
  /\ cards[1].index = 0
  /\ cards[2].index = 1

\* C12: every setCategory call is followed by exactly one render before the
\* next change event is handled (writes are handled only while no render is
\* due, each makes one due, and a due render is carried out), so the number
\* of renders is the number of writes plus the first one, and whenever no
\* render is due the filtered sequence, the cards, the notice and the value
\* the select shows are those of the current selection.
C12_RenderPerWrite ==
  /\ [](renders = writes + (IF pc = "idle" THEN 1 ELSE 0))
  /\ [][writes' # writes =>
          (pc = "idle" /\ pc' = "render" /\ writes' = writes + 1
           /\ renders' = renders)]_vars
  /\ [][renders' # renders =>
          (pc = "render" /\ pc' = "idle" /\ renders' = renders + 1
           /\ writes' = writes)]_vars
  /\ [](pc = "idle" =>
          /\ filteredProducts = ComputeFilteredProducts(products, category)
          /\ CardProducts = filteredProducts
          /\ notice = (Len(filteredProducts) = 0)
          /\ selectValue = category)
  /\ (pc = "render") ~> (pc = "idle")

\* Three changes of the selection, each rendered, the last one showing the
\* one record of its category.
C12_Witness ==
  /\ pc = "idle"
  /\ writes = 3
  /\ renders = 4
  /\ category = "Grocery"
  /\ Len(cards) = 1
  /\ cards[1].product.name = "Rice Bag"

\* No two records of the products array that have an id have the same id.
UniqueIds ==
  \A i, j \in DOMAIN products :
    (i # j /\ HasId(products[i]) /\ HasId(products[j])) =>
       Id(products[i]) # Id(products[j])

\* C13: after a render of a products array whose ids, where present, are
\* unique, no two cards have the same key, also when some records have an
\* id and others have none.
C13_KeysDistinct ==
  (pc = "idle" /\ UniqueIds) =>
    \A i, j \in DOMAIN cards : i # j => cards[i].key # cards[j].key
====
